---- MODULE Spec2Model ----
(***************************************************************************)
(* Model of the in-memory research job scheduler (EmbeddedJobProcessor),   *)
(* the HTTP handlers that feed and cancel it (ResearchController) and the  *)
(* Result Store writes of the ResearchWorker pipeline it drives.           *)
(*                                                                         *)
(* The program runs on one JavaScript event loop: every action below is    *)
(* one run-to-completion slice of a handler or callback, cut at the awaits *)
(* that wait for I/O (the database, the network) or for a timer.           *)
(***************************************************************************)
EXTENDS Integers, Sequences, FiniteSets, TLC

\* ------------------------------------------------------------------ bounds
\* Number of accepted submissions (request ids are 1..MaxJobs).
MaxJobs == 2
\* Number of disturbances over a run: DELETE /research/:id requests, and
\* database calls that fail for a reason other than a missing record.
MaxFaults == 1
\* Number of titles a Wikipedia answer lists, of hits a HackerNews answer lists
MaxTitles == 4
MaxHits == 3
\* Number of articles one client of the ResearchProcessor returns
MaxClientArticles == 2

\* ------------------------------------------------------- program constants
\* researchSchema: topic is z.string().min(1).max(200)
TopicMin == 1
TopicMax == 200
\* PRIORITY_ORDER
PRIORITY_ORDER_high == 3
PRIORITY_ORDER_normal == 2
PRIORITY_ORDER_low == 1
\* fallback rank of `PRIORITY_ORDER[p] ?? 2`
PRIORITY_ORDER_default == 2

Priorities == {"low", "normal", "high"}

\* A request body: whether it has a topic field, and the topic's length in
\* UTF-16 code units. The inputs are a body without topic, the empty topic,
\* the longest valid topic and the shortest topic that is too long.
TopicInputs == {[present |-> FALSE, len |-> 0], [present |-> TRUE, len |-> 0],
                [present |-> TRUE, len |-> TopicMax],
                [present |-> TRUE, len |-> TopicMax + 1]}

\* The scenario of three submissions: A (low), B (high), C (normal), in that order
Scenario == <<"low", "high", "normal">>

\* Request ids (uuids) are numbered in the order the requests are accepted
Ids == 1 .. (IF MaxJobs > Len(Scenario) THEN MaxJobs ELSE Len(Scenario))

\* Result Store record of a request that does not exist (never created, or deleted)
NoRecord == [status |-> "NONE", topic |-> 0, progress |-> 0, error |-> "none"]

\* No DELETE request between its findUnique and its write
NoDelete == [id |-> 0, force |-> FALSE, seen |-> "NONE"]

\* No ResearchResults yet
NoResult == [made |-> FALSE, summary |-> 0, keyInsights |-> 0, keywords |-> "none",
             totalArticles |-> 0, confidence |-> [num |-> 0, den |-> 1]]

\* The request's record before the run, and no result row
NoStore ==
  [status |-> "PENDING", progress |-> 0, results |-> 0, error |-> "none", written |-> <<>>,
   articles |-> 0]

\* Outcomes of a database call: it succeeds, or it throws (connection lost, timeout)
DbOutcomes == {TRUE, FALSE}

VARIABLES
  jobs,        \* EmbeddedJobProcessor.jobs: the Map in insertion order
  processing,  \* EmbeddedJobProcessor.processing
  polls,       \* pending setImmediate/setTimeout(…,1000) callbacks of processNextJob
  purges,      \* job ids with a pending setTimeout(() => jobs.delete(jobId), 30000)
  clock,       \* last value read from Date.now()
  nextId,      \* next request id (uuid) to hand out
  wpc,         \* position of the running ResearchWorker.processResearchTask
  wjob,        \* id of the job the worker runs (0 when none)
  werr,        \* message of the error the pipeline run is handling
  requests,    \* Result Store: researchRequest table
  results,     \* Result Store: number of researchResult rows per request
  del,         \* DELETE request between its findUnique and its write
  faults,      \* number of disturbances so far: DELETE requests and failed database calls
  response,    \* last HTTP response sent: "none", or status code and message
  startOrder,  \* history: ids of the jobs in the order they became active
  queuedFirst  \* history of the scenario: number of its jobs submitted before any job started

\* One run of the research pipeline, with the data it works on
VARIABLES
  variant,     \* the pipeline that runs: ResearchWorker or a copy of ResearchProcessor
  ppc,         \* position of the run
  providers,   \* what each Search Provider answers in this run
  fetched,     \* the articles fetchArticles returned
  processed,   \* the articles processArticles returned
  presult,     \* the ResearchResults in the making
  pstore,      \* Result Store: the request's record and its number of result rows
  perr,        \* the error the run rejects with ("none": no error)
  reports      \* the progress values the run reported, in order

\* The state of the scheduler, the HTTP handlers and the store they write
svars == <<jobs, processing, polls, purges, clock, nextId, wpc, wjob, werr,
           requests, results, del, faults, response, startOrder, queuedFirst>>

\* The state of a pipeline run
pvars == <<variant, ppc, providers, fetched, processed, presult, pstore, perr, reports>>

\* One call of a function of the ranker of ResearchProcessor
VARIABLES
  args,        \* the arguments of the call: the articles, the topic, the variant
  returned     \* what the call returned

fvars == <<args, returned>>

vars == <<svars, pvars, fvars>>

\* No call of the ranker on its own
NoArgs == [articles |-> <<>>, topic |-> <<>>, variant |-> "none"]

NotCalled == [op |-> "none", threw |-> FALSE, value |-> <<>>, again |-> <<>>, total |-> 0]

NoCall == args = NoArgs /\ returned = NotCalled

\* ----------------------------------------------------------------- helpers
\* Indices of a sequence whose element satisfies a test
JobIndex(id) == CHOOSE i \in 1 .. Len(jobs) : jobs[i].id = id

HasJob(id) == \E i \in 1 .. Len(jobs) : jobs[i].id = id

JobStatus(id) == IF HasJob(id) THEN jobs[JobIndex(id)].status ELSE "absent"

RemoveAt(s, i) == SubSeq(s, 1, i - 1) \o SubSeq(s, i + 1, Len(s))

\* Mutant: the schema without .max(200)
ValidTopic_noMax(t) == t.present /\ t.len >= TopicMin

\* researchSchema.parse(req.body): TRUE when the topic passes validation
ValidTopic(t) == t.present /\ t.len >= TopicMin /\ t.len <= TopicMax

\* The message of the ZodError for a topic that fails validation
ValidationMessage(t) ==
  IF ~t.present THEN "400 Validation failed: Required"
  ELSE IF t.len < TopicMin THEN "400 Validation failed: Topic is required"
  ELSE "400 Validation failed: Topic too long"

ValidationErrors == {"400 Validation failed: Required",
                     "400 Validation failed: Topic is required",
                     "400 Validation failed: Topic too long"}

\* Mutant: the ranks of high and normal swapped in the table
PriorityRank_swapped(p) ==
  CASE p = "high" -> PRIORITY_ORDER_normal
    [] p = "normal" -> PRIORITY_ORDER_high
    [] p = "low" -> PRIORITY_ORDER_low
    [] OTHER -> PRIORITY_ORDER_default

\* PRIORITY_ORDER[p] ?? 2
PriorityRank(p) ==
  CASE p = "high" -> PRIORITY_ORDER_high
    [] p = "normal" -> PRIORITY_ORDER_normal
    [] p = "low" -> PRIORITY_ORDER_low
    [] OTHER -> PRIORITY_ORDER_default

\* Mutant: the tie-break on createdAt reversed (newest first)
CompareJobs_newestFirst(a, b) ==
  LET priorityDiff == PriorityRank(b.priority) - PriorityRank(a.priority)
  IN IF priorityDiff # 0 THEN priorityDiff ELSE b.createdAt - a.createdAt

\* the comparator handed to Array.prototype.sort in getNextWaitingJob
CompareJobs(a, b) ==
  LET priorityDiff == PriorityRank(b.priority) - PriorityRank(a.priority)
  IN IF priorityDiff # 0 THEN priorityDiff ELSE a.createdAt - b.createdAt

\* Mutant: the status filter dropped
WaitingJobs_noFilter(js) == js

\* .filter(([, job]) => job.status === 'waiting')
WaitingJobs(js) == SelectSeq(js, LAMBDA j : j.status = "waiting")

\* Array.prototype.sort is stable: x, taken from behind the elements already
\* placed, goes behind every element that does not compare greater than it.
RECURSIVE InsertSorted(_, _)
InsertSorted(sorted, x) ==
  IF sorted = <<>> THEN <<x>>
  ELSE IF CompareJobs(Head(sorted), x) <= 0
       THEN <<Head(sorted)>> \o InsertSorted(Tail(sorted), x)
       ELSE <<x>> \o sorted

RECURSIVE SortJobs(_)
SortJobs(s) ==
  IF s = <<>> THEN <<>>
  ELSE InsertSorted(SortJobs(SubSeq(s, 1, Len(s) - 1)), s[Len(s)])

\* The earlier copy of the processor (services/queue-manager.ts): its
\* processNextJob walks the Map and takes the first job whose status is
\* waiting; the priority of the job is not read.
getNextWaitingJob_legacy(js) == SelectSeq(js, LAMBDA j : j.status = "waiting")

\* getNextWaitingJob(): the sorted waiting list (its head is the next job)
getNextWaitingJob(js) == SortJobs(WaitingJobs(js))

\* Array.from(this.jobs.values()).some(j => j.status === 'waiting')
hasWaitingJobs(js) == \E i \in 1 .. Len(js) : js[i].status = "waiting"

\* getStats()
\* One turn of the loop of getStats: the switch on job.status, then total++
countJob(stats, job) ==
  LET counted == CASE job.status = "waiting" -> [stats EXCEPT !.waiting = @ + 1]
                   [] job.status = "active" -> [stats EXCEPT !.active = @ + 1]
                   [] job.status = "completed" -> [stats EXCEPT !.completed = @ + 1]
                   [] job.status = "failed" -> [stats EXCEPT !.failed = @ + 1]
                   [] OTHER -> stats
  IN [counted EXCEPT !.total = @ + 1]

RECURSIVE getStatsFrom(_, _)
getStatsFrom(js, stats) ==
  IF js = <<>> THEN stats ELSE getStatsFrom(Tail(js), countJob(stats, Head(js)))

getStats(js) ==
  getStatsFrom(js, [waiting |-> 0, active |-> 0, completed |-> 0, failed |-> 0, total |-> 0])

\* queueManager.getQueueStats of the Bull queue: the lengths of the lists of
\* the jobs in each state, and total = waiting.length + active.length
getQueueStats(js) ==
  LET length(st) == Cardinality({i \in 1 .. Len(js) : js[i].status = st})
  IN [waiting |-> length("waiting"), active |-> length("active"),
      completed |-> length("completed"), failed |-> length("failed"),
      total |-> length("waiting") + length("active")]

\* -------------------------------------------------------------------- Init
InitScheduler ==
  /\ jobs = <<>>
  /\ processing = FALSE
  /\ polls = 0
  /\ purges = {}
  /\ clock = 0
  /\ nextId = 1
  /\ wpc = "idle"
  /\ wjob = 0
  /\ werr = "none"
  /\ requests = [i \in Ids |-> NoRecord]
  /\ results = [i \in Ids |-> 0]
  /\ del = NoDelete
  /\ faults = 0
  /\ response = "none"
  /\ startOrder = <<>>
  /\ queuedFirst = 0

\* No pipeline run is followed in detail
NoRun ==
  /\ variant = "none"
  /\ ppc = "idle"
  /\ providers = <<>>
  /\ fetched = <<>>
  /\ processed = <<>>
  /\ presult = NoResult
  /\ pstore = NoStore
  /\ perr = "none"
  /\ reports = <<>>

Init == InitScheduler /\ NoRun /\ NoCall

\* ---------------------------------------------------------------- addJob
\* A database call with outcome dbOk; failures are counted against MaxFaults.
DbCall(dbOk) ==
  /\ dbOk \/ faults < MaxFaults
  /\ faults' = IF dbOk THEN faults ELSE faults + 1

\* EmbeddedJobProcessor.addJob: append to the Map, stamp createdAt, and if
\* no job is being processed schedule processNextJob with setImmediate.
\* tick is the time that passed since the last Date.now() (0: same millisecond).
addJob(id, topic, priority, tick) ==
  /\ clock' = clock + tick
  /\ jobs' = Append(jobs, [id |-> id, topic |-> topic, priority |-> priority,
                           status |-> "waiting", createdAt |-> clock + tick,
                           error |-> "none"])
  /\ polls' = IF ~processing THEN polls + 1 ELSE polls

\* ResearchController.submitResearch (POST /research); the request id is a
\* fresh uuid, here the next unused number. After addJob the handler reads
\* the record back (findUnique); when that read throws (findOk = FALSE) the
\* inner catch block records the request as FAILED and answers 503, the job
\* staying in the queue.
SubmitResearch(topic, priority, tick, dbOk, findOk) ==
  /\ IF ~ValidTopic(topic)
     THEN \* researchSchema.parse throws a ZodError: 400, nothing is created
          /\ dbOk /\ findOk
          /\ response' = ValidationMessage(topic)
          /\ UNCHANGED <<jobs, polls, clock, requests, nextId, faults>>
     ELSE IF ~dbOk
          THEN \* prisma.researchRequest.create throws: 500
               /\ findOk
               /\ DbCall(FALSE)
               /\ response' = "500 Internal server error"
               /\ UNCHANGED <<jobs, polls, clock, requests, nextId>>
          ELSE /\ DbCall(findOk)
               /\ requests' = [requests EXCEPT ![nextId] =
                                [status |-> IF findOk THEN "PENDING" ELSE "FAILED",
                                 topic |-> topic.len, progress |-> 0,
                                 error |-> IF findOk THEN "none" ELSE "DbError"]]
               /\ addJob(nextId, topic.len, priority, tick)
               /\ nextId' = nextId + 1
               /\ response' = IF findOk THEN "201 Created"
                              ELSE "503 Failed to queue research task"
  /\ UNCHANGED <<processing, purges, wpc, wjob, werr, results, del, startOrder>>

\* Time between two reads of Date.now(): none (same millisecond) or some.
\* The first read is the origin of the model's time axis.
Ticks == IF nextId = 1 THEN {0} ELSE {0, 1}

Submit ==
  /\ nextId <= MaxJobs
  /\ \E topic \in TopicInputs, priority \in Priorities, tick \in Ticks,
        dbOk \in DbOutcomes, findOk \in DbOutcomes :
       SubmitResearch(topic, priority, tick, dbOk, findOk)
  /\ UNCHANGED queuedFirst

\* The i-th accepted submission of the scenario has the i-th priority of Scenario
ScenarioSubmit ==
  /\ nextId <= Len(Scenario)
  /\ \E topic \in TopicInputs, tick \in Ticks, dbOk \in DbOutcomes, findOk \in DbOutcomes :
       SubmitResearch(topic, Scenario[nextId], tick, dbOk, findOk)
  /\ queuedFirst' = IF nextId' # nextId /\ startOrder = <<>> THEN queuedFirst + 1
                    ELSE queuedFirst

\* ---------------------------------------------------------- processNextJob
\* The callback of setImmediate / setTimeout(…, 1000) up to its first await:
\* the processing guard, getNextWaitingJob, and marking the job active.
\* Mutant: processNextJob without its processing guard
processingGuard_off == FALSE

\* `if (this.processing) return`
processingGuard == processing

\* candidates is the list of jobs to choose from, the job to run at its head
processNextJobWith(candidates) ==
  /\ polls > 0
  /\ polls' = polls - 1
  /\ IF processingGuard
     THEN UNCHANGED <<jobs, processing, wpc, wjob, startOrder>>
     ELSE LET next == candidates
          IN IF next = <<>>
             THEN \* `if (!next) return`; finally resets processing
                  UNCHANGED <<jobs, processing, wpc, wjob, startOrder>>
             ELSE LET job == Head(next)
                  IN /\ jobs' = [jobs EXCEPT ![JobIndex(job.id)].status = "active"]
                     /\ processing' = TRUE
                     /\ wpc' = "inprogress"
                     /\ wjob' = job.id
                     /\ startOrder' = Append(startOrder, job.id)
  /\ UNCHANGED <<purges, clock, nextId, werr, requests, results, del, faults, response,
                 queuedFirst>>

\* processNextJob of the priority-ordered processor
processNextJob == processNextJobWith(getNextWaitingJob(jobs))

\* processNextJob of the earlier copy of the processor
processNextJob_legacy == processNextJobWith(getNextWaitingJob_legacy(jobs))

\* ------------------------------------------------------ ResearchWorker
\* prisma.researchRequest.update throws when the record does not exist
\* (it was deleted) or when the database call fails (dbOk = FALSE).
UpdateError(id, dbOk) ==
  IF requests[id].status = "NONE" THEN "RecordNotFound"
  ELSE IF ~dbOk THEN "DbError" ELSE "none"

\* One `await prisma.researchRequest.update(...)` of processResearchTask:
\* on success write the fields and go on to `then`, on error enter the catch block.
WorkerUpdate(from, then, status, progress, dbOk) ==
  /\ wpc = from
  /\ LET err == UpdateError(wjob, dbOk)
     IN /\ IF err = "RecordNotFound" THEN dbOk /\ UNCHANGED faults ELSE DbCall(dbOk)
        /\ IF err = "none"
           THEN /\ requests' = [requests EXCEPT ![wjob].status =
                                  IF status = "same" THEN @ ELSE status,
                                                ![wjob].progress = progress]
                /\ wpc' = then
                /\ UNCHANGED werr
           ELSE /\ wpc' = "catch"
                /\ werr' = err
                /\ UNCHANGED requests
  /\ UNCHANGED <<jobs, processing, polls, purges, clock, nextId, wjob, results,
                 del, response, startOrder, queuedFirst>>

\* status: 'IN_PROGRESS', progress: 10
WorkerInProgress == \E dbOk \in DbOutcomes :
  WorkerUpdate("inprogress", "gather", "IN_PROGRESS", 10, dbOk)

\* fetchArticles (never throws: every provider error is caught), then progress: 40
WorkerGather == \E dbOk \in DbOutcomes :
  WorkerUpdate("gather", "process", "same", 40, dbOk)

\* processArticles, then progress: 70
WorkerProcess == \E dbOk \in DbOutcomes :
  WorkerUpdate("process", "save", "same", 70, dbOk)

\* The error prisma.researchResult.create rejects with ("none": it resolves):
\* the row references the request (foreign key), so the create fails when the
\* request record is gone; its messages are not those of an update.
SaveError(id, dbOk) ==
  IF requests[id].status = "NONE" THEN "ForeignKeyError"
  ELSE IF ~dbOk THEN "SaveError" ELSE "none"

\* Mutant: the run goes on to its last write without saving
WorkerSave_skip ==
  /\ wpc = "save"
  /\ wpc' = "complete"
  /\ UNCHANGED <<jobs, processing, polls, purges, clock, nextId, wjob, werr, requests,
                 results, del, faults, response, startOrder, queuedFirst>>

\* saveResults: prisma.researchResult.create
WorkerSave == \E dbOk \in DbOutcomes :
  /\ wpc = "save"
  /\ LET err == SaveError(wjob, dbOk)
     IN /\ IF err = "ForeignKeyError" THEN dbOk /\ UNCHANGED faults ELSE DbCall(dbOk)
        /\ IF err = "none"
           THEN /\ results' = [results EXCEPT ![wjob] = @ + 1]
                /\ wpc' = "complete"
                /\ UNCHANGED werr
           ELSE /\ wpc' = "catch"
                /\ werr' = err
                /\ UNCHANGED results
  /\ UNCHANGED <<jobs, processing, polls, purges, clock, nextId, wjob, requests,
                 del, response, startOrder, queuedFirst>>

\* status: 'COMPLETED', progress: 100
WorkerComplete == \E dbOk \in DbOutcomes :
  WorkerUpdate("complete", "finish", "COMPLETED", 100, dbOk)

\* Mutant: the tail without the re-poll
Reschedule_noRepoll(js) ==
  /\ polls' = polls
  /\ processing' = FALSE

\* The tail of processNextJob once the worker is done with the job: re-poll
\* in a second if a job waits, and (finally) release the processing flag.
Reschedule(js) ==
  /\ polls' = IF hasWaitingJobs(js) THEN polls + 1 ELSE polls
  /\ processing' = FALSE

\* processNextJob after `await worker.processResearchTask(job.data)` resolved:
\* mark completed, schedule the purge, then the tail.
JobCompleted ==
  /\ wpc = "finish"
  /\ LET done == [jobs EXCEPT ![JobIndex(wjob)].status = "completed"]
     IN /\ jobs' = done
        /\ purges' = purges \cup {wjob}
        /\ Reschedule(done)
  /\ wpc' = "idle"
  /\ wjob' = 0
  /\ UNCHANGED <<clock, nextId, werr, requests, results, del, faults, response,
                 startOrder, queuedFirst>>

\* Mutant: a failed job is put back in the queue
markFailed_retry(js, id, message) ==
  [js EXCEPT ![JobIndex(id)].status = "waiting", ![JobIndex(id)].error = message]

\* What the catch block of processNextJob does to the job that threw
markFailed(js, id, message) ==
  [js EXCEPT ![JobIndex(id)].status = "failed", ![JobIndex(id)].error = message]

\* Mutant: the failed job is scheduled for removal like a completed one
JobFailed_purged == \E dbOk \in DbOutcomes :
  /\ wpc = "catch"
  /\ LET err == UpdateError(wjob, dbOk)
     IN /\ IF err = "RecordNotFound" THEN dbOk /\ UNCHANGED faults ELSE DbCall(dbOk)
        /\ requests' = IF err = "none"
                       THEN [requests EXCEPT ![wjob].status = "FAILED", ![wjob].error = werr]
                       ELSE requests
  /\ LET done == markFailed(jobs, wjob, werr)
     IN /\ jobs' = done
        /\ Reschedule(done)
  /\ purges' = purges \cup {wjob}
  /\ wpc' = "idle"
  /\ wjob' = 0
  /\ werr' = "none"
  /\ UNCHANGED <<clock, nextId, results, del, response, startOrder, queuedFirst>>

\* Mutant: the catch block of processResearchTask without its write
JobFailed_noRecord ==
  /\ wpc = "catch"
  /\ LET done == markFailed(jobs, wjob, werr)
     IN /\ jobs' = done
        /\ Reschedule(done)
  /\ wpc' = "idle"
  /\ wjob' = 0
  /\ werr' = "none"
  /\ UNCHANGED <<purges, clock, nextId, requests, results, del, faults, response,
                 startOrder, queuedFirst>>

\* The catch block of processResearchTask (status: 'FAILED', a failing write is
\* swallowed by .catch) and its rethrow into the catch block of processNextJob:
\* mark failed with the message, then the tail.
JobFailed == \E dbOk \in DbOutcomes :
  /\ wpc = "catch"
  /\ LET err == UpdateError(wjob, dbOk)
     IN /\ IF err = "RecordNotFound" THEN dbOk /\ UNCHANGED faults ELSE DbCall(dbOk)
        /\ requests' = IF err = "none"
                       THEN [requests EXCEPT ![wjob].status = "FAILED", ![wjob].error = werr]
                       ELSE requests
  /\ LET done == markFailed(jobs, wjob, werr)
     IN /\ jobs' = done
        /\ Reschedule(done)
  /\ wpc' = "idle"
  /\ wjob' = 0
  /\ werr' = "none"
  /\ UNCHANGED <<purges, clock, nextId, results, del, response, startOrder, queuedFirst>>

\* setTimeout(() => this.jobs.delete(jobId), 30000)
PurgeCompleted == \E id \in purges :
  /\ purges' = purges \ {id}
  /\ jobs' = IF HasJob(id) THEN RemoveAt(jobs, JobIndex(id)) ELSE jobs
  /\ UNCHANGED <<processing, polls, clock, nextId, wpc, wjob, werr, requests, results,
                 del, faults, response, startOrder, queuedFirst>>

\* ------------------------------------------------------- deleteResearch
\* DELETE /research/:id up to the result of findUnique
DeleteFind == \E id \in Ids, force \in BOOLEAN :
  /\ faults < MaxFaults
  /\ del = NoDelete
  /\ faults' = faults + 1
  /\ IF requests[id].status = "NONE"
     THEN /\ response' = "404 Research task not found"
          /\ UNCHANGED del
     ELSE /\ del' = [id |-> id, force |-> force, seen |-> requests[id].status]
          /\ UNCHANGED response
  /\ UNCHANGED <<jobs, processing, polls, purges, clock, nextId, wpc, wjob, werr,
                 requests, results, startOrder, queuedFirst>>

\* DELETE /research/:id from findUnique's result on: cancel (status CANCELLED)
\* a task seen PENDING or IN_PROGRESS unless forced, delete the record otherwise.
\* research_results references research_requests ON DELETE RESTRICT.
DeleteApply == \E dbOk \in DbOutcomes :
  /\ del # NoDelete
  /\ del' = NoDelete
  /\ LET err == UpdateError(del.id, dbOk)
     IN /\ IF err = "RecordNotFound" THEN dbOk /\ UNCHANGED faults ELSE DbCall(dbOk)
        /\ IF ~del.force /\ del.seen \in {"IN_PROGRESS", "PENDING"}
           THEN IF err = "none"
                THEN /\ requests' = [requests EXCEPT ![del.id].status = "CANCELLED"]
                     /\ response' = "200 Research task cancelled successfully"
                ELSE /\ response' = "500 Internal server error"
                     /\ UNCHANGED requests
           ELSE IF err = "none" /\ results[del.id] = 0
                THEN /\ requests' = [requests EXCEPT ![del.id] = NoRecord]
                     /\ response' = "200 Research task deleted successfully"
                ELSE /\ response' = "500 Internal server error"
                     /\ UNCHANGED requests
  /\ UNCHANGED <<jobs, processing, polls, purges, clock, nextId, wpc, wjob, werr,
                 results, startOrder, queuedFirst>>

Next ==
  \/ Submit /\ UNCHANGED <<pvars, fvars>>
  \/ processNextJob /\ UNCHANGED <<pvars, fvars>>
  \/ WorkerInProgress /\ UNCHANGED <<pvars, fvars>>
  \/ WorkerGather /\ UNCHANGED <<pvars, fvars>>
  \/ WorkerProcess /\ UNCHANGED <<pvars, fvars>>
  \/ WorkerSave /\ UNCHANGED <<pvars, fvars>>
  \/ WorkerComplete /\ UNCHANGED <<pvars, fvars>>
  \/ JobCompleted /\ UNCHANGED <<pvars, fvars>>
  \/ JobFailed /\ UNCHANGED <<pvars, fvars>>
  \/ PurgeCompleted /\ UNCHANGED <<pvars, fvars>>
  \/ DeleteFind /\ UNCHANGED <<pvars, fvars>>
  \/ DeleteApply /\ UNCHANGED <<pvars, fvars>>

Spec == Init /\ [][Next]_vars

\* The scenario: the same program and environment, fed the three submissions
NextScenario ==
  \/ ScenarioSubmit /\ UNCHANGED <<pvars, fvars>>
  \/ processNextJob /\ UNCHANGED <<pvars, fvars>>
  \/ WorkerInProgress /\ UNCHANGED <<pvars, fvars>>
  \/ WorkerGather /\ UNCHANGED <<pvars, fvars>>
  \/ WorkerProcess /\ UNCHANGED <<pvars, fvars>>
  \/ WorkerSave /\ UNCHANGED <<pvars, fvars>>
  \/ WorkerComplete /\ UNCHANGED <<pvars, fvars>>
  \/ JobCompleted /\ UNCHANGED <<pvars, fvars>>
  \/ JobFailed /\ UNCHANGED <<pvars, fvars>>
  \/ PurgeCompleted /\ UNCHANGED <<pvars, fvars>>
  \/ DeleteFind /\ UNCHANGED <<pvars, fvars>>
  \/ DeleteApply /\ UNCHANGED <<pvars, fvars>>

SpecScenario == Init /\ [][NextScenario]_vars

\* The same program with the earlier copy of the processor behind queueManager
NextLegacy ==
  \/ Submit /\ UNCHANGED <<pvars, fvars>>
  \/ processNextJob_legacy /\ UNCHANGED <<pvars, fvars>>
  \/ WorkerInProgress /\ UNCHANGED <<pvars, fvars>>
  \/ WorkerGather /\ UNCHANGED <<pvars, fvars>>
  \/ WorkerProcess /\ UNCHANGED <<pvars, fvars>>
  \/ WorkerSave /\ UNCHANGED <<pvars, fvars>>
  \/ WorkerComplete /\ UNCHANGED <<pvars, fvars>>
  \/ JobCompleted /\ UNCHANGED <<pvars, fvars>>
  \/ JobFailed /\ UNCHANGED <<pvars, fvars>>
  \/ PurgeCompleted /\ UNCHANGED <<pvars, fvars>>
  \/ DeleteFind /\ UNCHANGED <<pvars, fvars>>
  \/ DeleteApply /\ UNCHANGED <<pvars, fvars>>

SpecLegacy == Init /\ [][NextLegacy]_vars

\* The event loop runs every callback that is ready: timers fire, database
\* calls return, and the continuation of a finished pipeline run is executed.
SchedulerStep ==
  \/ processNextJob /\ UNCHANGED <<pvars, fvars>>
  \/ WorkerInProgress /\ UNCHANGED <<pvars, fvars>>
  \/ WorkerGather /\ UNCHANGED <<pvars, fvars>>
  \/ WorkerProcess /\ UNCHANGED <<pvars, fvars>>
  \/ WorkerSave /\ UNCHANGED <<pvars, fvars>>
  \/ WorkerComplete /\ UNCHANGED <<pvars, fvars>>
  \/ JobCompleted /\ UNCHANGED <<pvars, fvars>>
  \/ JobFailed /\ UNCHANGED <<pvars, fvars>>

FairSpec == Init /\ [][Next]_vars /\ WF_vars(SchedulerStep)

\* ------------------------------------------------- research pipeline: data
\* An article is a record [title, url, source, relevanceScore, summary]:
\* title and url are names, relevanceScore is a number (ResearchWorker: in
\* hundredths; ResearchProcessor: the rank score), summary tells what the
\* summary text is like: "missing" (undefined), "short" (no sentence of more
\* than 20 characters) or "long" (one sentence of more than 20 characters).
\* A text is modelled by its length, a confidence by the fraction num / den.
Min(a, b) == IF a <= b THEN a ELSE b

Max(a, b) == IF a >= b THEN a ELSE b

\* Array.prototype.slice(0, n)
Take(s, n) == SubSeq(s, 1, Min(n, Len(s)))

\* articles.reduce((sum, a) => sum + a.relevanceScore, 0)
RECURSIVE SumRelevance(_)
SumRelevance(as) ==
  IF as = <<>> THEN 0 ELSE Head(as).relevanceScore + SumRelevance(Tail(as))

\* new Set(articles.map(a => a.source))
Sources(as) == {as[i].source : i \in 1 .. Len(as)}

\* articles.sort((a, b) => b.relevanceScore - a.relevanceScore), a stable sort
RECURSIVE InsertByRelevance(_, _)
InsertByRelevance(sorted, x) ==
  IF sorted = <<>> THEN <<x>>
  ELSE IF Head(sorted).relevanceScore >= x.relevanceScore
       THEN <<Head(sorted)>> \o InsertByRelevance(Tail(sorted), x)
       ELSE <<x>> \o sorted

RECURSIVE SortByRelevance(_)
SortByRelevance(as) ==
  IF as = <<>> THEN <<>>
  ELSE InsertByRelevance(SortByRelevance(SubSeq(as, 1, Len(as) - 1)), as[Len(as)])

\* ------------------------------------------------------ ResearchWorker: data
\* What the Wikipedia opensearch call answers: it throws (network error, a
\* body that is not the expected JSON), it lists n titles, or it never
\* answers ("timeout": the promise of fetch stays pending).
WikipediaAnswers ==
  {[outcome |-> "throws", titles |-> 0], [outcome |-> "timeout", titles |-> 0]}
    \cup [outcome : {"ok"}, titles : 0 .. MaxTitles]

\* A hit of the HackerNews search: whether it has a title and a url, and its points
Hits == {[named |-> TRUE, points |-> 0], [named |-> TRUE, points |-> 250],
         [named |-> FALSE, points |-> 50]}

RECURSIVE SeqsUpTo(_, _)
SeqsUpTo(S, n) ==
  IF n = 0 THEN {<<>>}
  ELSE SeqsUpTo(S, n - 1) \cup
       {Append(q, x) : q \in {r \in SeqsUpTo(S, n - 1) : Len(r) = n - 1}, x \in S}

\* What the HackerNews search answers: it throws, it lists hits, or it never
\* answers
HackerNewsAnswers ==
  {[outcome |-> "throws", hits |-> <<>>], [outcome |-> "timeout", hits |-> <<>>]}
    \cup [outcome : {"ok"}, hits : SeqsUpTo(Hits, MaxHits)]

\* fetchFromWikipedia and fetchFromHackerNews await fetch(url) with no
\* timeout and no abort signal: while a provider does not answer, the await
\* of Promise.allSettled in fetchArticles stays pending.
Worker_fetchBlocks(wikipedia, hackernews) ==
  wikipedia.outcome = "timeout" \/ hackernews.outcome = "timeout"

\* fetchFromWikipedia: the first three titles, relevance 0.9, 0.8, 0.7; every
\* error is caught inside and answered with no articles, so the call never
\* rejects.
fetchFromWikipedia(answer) ==
  IF answer.outcome = "throws" THEN [rejected |-> FALSE, articles |-> <<>>]
  ELSE [rejected |-> FALSE,
        articles |-> [i \in 1 .. Min(answer.titles, 3) |->
                        [title |-> <<"wikipedia", i>>, url |-> <<"wikipedia", i>>,
                         source |-> "Wikipedia", relevanceScore |-> 90 - (i - 1) * 10,
                         summary |-> "long"]]]

\* The article made of one hit: relevance points / 100 capped at 1, or 0.5
HitArticle(hit, i) ==
  [title |-> <<"hackernews", i>>, url |-> <<"hackernews", i>>, source |-> "HackerNews",
   relevanceScore |-> IF hit.points # 0 THEN Min(hit.points, 100) ELSE 50,
   summary |-> "long"]

RECURSIVE HitArticles(_, _)
HitArticles(hits, i) ==
  IF i > Len(hits) THEN <<>>
  ELSE (IF hits[i].named THEN <<HitArticle(hits[i], i)>> ELSE <<>>)
       \o HitArticles(hits, i + 1)

fetchFromHackerNews_rejects(answer) ==
  IF answer.outcome = "throws" THEN [rejected |-> TRUE, articles |-> <<>>]
  ELSE [rejected |-> FALSE, articles |-> HitArticles(Take(answer.hits, 2), 1)]

\* fetchFromHackerNews: of the first two hits those with a title and a url;
\* every error is caught inside, so the call never rejects.
fetchFromHackerNews(answer) ==
  IF answer.outcome = "throws" THEN [rejected |-> FALSE, articles |-> <<>>]
  ELSE [rejected |-> FALSE, articles |-> HitArticles(Take(answer.hits, 2), 1)]

\* generateFallbackArticles
generateFallbackArticles ==
  << [title |-> <<"fallback", 1>>, url |-> <<"fallback", 1>>, source |-> "Research Database",
      relevanceScore |-> 95, summary |-> "long"],
     [title |-> <<"fallback", 2>>, url |-> <<"fallback", 2>>, source |-> "Industry Reports",
      relevanceScore |-> 87, summary |-> "long"] >>

\* ResearchWorker.fetchArticles: Wikipedia then HackerNews; the catch block
\* adds the fallback articles to what was pushed before the rejection; at
\* most 10 articles are returned.
Worker_fetchArticles(wikipedia, hackernews) ==
  LET w == fetchFromWikipedia(wikipedia)
      h == fetchFromHackerNews(hackernews)
  IN Take(IF w.rejected THEN generateFallbackArticles
          ELSE IF h.rejected THEN w.articles \o generateFallbackArticles
          ELSE w.articles \o h.articles, 10)

\* ResearchWorker.processArticles: the five most relevant articles, the
\* i-th (from 0) with relevance max(0.6, relevance - 0.05 i)
Worker_processArticles(as) ==
  LET top == Take(SortByRelevance(as), 5)
  IN [i \in 1 .. Len(top) |->
        [top[i] EXCEPT !.relevanceScore = Max(60, top[i].relevanceScore - (i - 1) * 5)]]

\* ResearchWorker.calculateConfidence, in hundredths over the number of
\* articles: min(0.95, max(0.5, average relevance + min(0.1 sources, 0.2)))
Worker_calculateConfidence(as) ==
  IF Len(as) = 0 THEN [num |-> 50, den |-> 100]
  ELSE LET n == Len(as)
           sourceBonus == Min(Cardinality(Sources(as)) * 10, 20)
       IN [num |-> Min(95 * n, Max(50 * n, SumRelevance(as) + sourceBonus * n)),
           den |-> 100 * n]

\* The ResearchResults processResearchTask builds: the summary is a fixed
\* sentence around the topic and the number of articles, generateInsights
\* returns four sentences, extractKeywords works inline.
Worker_results(topicLen, as) ==
  [made |-> TRUE,
   summary |-> 37 + topicLen + 11 + 1 + 84,
   keyInsights |-> 4,
   keywords |-> "inline",
   totalArticles |-> Len(as),
   confidence |-> Worker_calculateConfidence(as)]

\* --------------------------------------------------- ResearchProcessor: data
\* The articles a client may return.  Strings are sequences of characters.
\* A title is [defined, name, upper]: defined is FALSE when the provider
\* sent no title, name is the title in lower case, upper tells whether it
\* is written in upper case; occurrences is the number of
\* times the topic's words occur in title and summary.
WikipediaPool ==
  { [title |-> [defined |-> TRUE, name |-> <<"t", "1">>, upper |-> FALSE],
     url |-> <<"u", "1">>, source |-> "Wikipedia", relevanceScore |-> 0,
     summary |-> "long", occurrences |-> 3, publishedAt |-> "none"],
    [title |-> [defined |-> TRUE, name |-> <<"t", "1">>, upper |-> TRUE],
     url |-> <<"u", "1">>, source |-> "Wikipedia", relevanceScore |-> 0,
     summary |-> "short", occurrences |-> 1, publishedAt |-> "none"],
    [title |-> [defined |-> TRUE, name |-> <<"t", "2">>, upper |-> FALSE],
     url |-> <<"u", "2">>, source |-> "Wikipedia", relevanceScore |-> 0,
     summary |-> "missing", occurrences |-> 0, publishedAt |-> "none"],
    [title |-> [defined |-> FALSE, name |-> <<>>, upper |-> FALSE],
     url |-> <<"u", "3">>, source |-> "Wikipedia", relevanceScore |-> 0,
     summary |-> "long", occurrences |-> 2, publishedAt |-> "none"] }

NewsAPIPool ==
  { [title |-> [defined |-> TRUE, name |-> <<"t", "3">>, upper |-> FALSE],
     url |-> <<"u", "4">>, source |-> "BBC", relevanceScore |-> 0,
     summary |-> "short", occurrences |-> 0, publishedAt |-> "date"],
    [title |-> [defined |-> TRUE, name |-> <<"t", "4">>, upper |-> FALSE],
     url |-> <<"u", "5">>, source |-> "Reuters", relevanceScore |-> 0,
     summary |-> "long", occurrences |-> 8, publishedAt |-> "date"] }

\* What client.search answers: it rejects, it never answers, or it returns articles
ClientAnswers(pool) ==
  [outcome : {"throws", "timeout"}, articles : {<<>>}]
    \cup [outcome : {"ok"}, articles : SeqsUpTo(pool, MaxClientArticles)]

\* One element of fetchPromises: a rejection, or the 30 s timeout winning the
\* race, is caught and answered with no articles.
Processor_fetchFromClient(answer) ==
  IF answer.outcome \in {"throws", "timeout"} THEN <<>> ELSE answer.articles

\* ResearchProcessor.fetchArticles: the fulfilled values in the order of the clients
RECURSIVE Processor_fetchArticles(_)
Processor_fetchArticles(answers) ==
  IF answers = <<>> THEN <<>>
  ELSE Processor_fetchFromClient(Head(answers)) \o Processor_fetchArticles(Tail(answers))

\* Second variant: the clients are awaited in turn, with no timeout; a client
\* that never answers blocks the loop.
Processor2_fetchBlocks(answers) == \E i \in 1 .. Len(answers) : answers[i].outcome = "timeout"

RECURSIVE Processor2_fetchArticles(_)
Processor2_fetchArticles(answers) ==
  IF answers = <<>> THEN <<>>
  ELSE (IF Head(answers).outcome = "throws" THEN <<>> ELSE Head(answers).articles)
       \o Processor2_fetchArticles(Tail(answers))

\* article.title.toLowerCase() + article.url: the two strings joined
DedupKey(a) == a.title.name \o a.url

\* article.title.toLowerCase() throws a TypeError when the title is undefined
removeDuplicatesThrows(as) == \E i \in 1 .. Len(as) : ~as[i].title.defined

RECURSIVE removeDuplicatesFrom(_, _)
removeDuplicatesFrom(as, seen) ==
  IF as = <<>> THEN <<>>
  ELSE IF DedupKey(Head(as)) \in seen THEN removeDuplicatesFrom(Tail(as), seen)
       ELSE <<Head(as)>> \o removeDuplicatesFrom(Tail(as), seen \cup {DedupKey(Head(as))})

\* Mutant: only the last article is dropped when its key occurred before
removeDuplicates_last(as) ==
  IF as # <<>> /\ (\E j \in 1 .. Len(as) - 1 : DedupKey(as[j]) = DedupKey(as[Len(as)]))
  THEN SubSeq(as, 1, Len(as) - 1)
  ELSE as

\* removeDuplicates: the first article of each key, in the order of the input
removeDuplicates(as) == removeDuplicatesFrom(as, {})

\* rankByRelevance: score = 2 * occurrences, sorted by descending score
rankByRelevance(as) ==
  SortByRelevance([i \in 1 .. Len(as) |->
                     [as[i] EXCEPT !.relevanceScore = 2 * as[i].occurrences]])

\* Mutant: the first 21 articles are kept
Processor_processArticles_21(as) ==
  IF removeDuplicatesThrows(as) THEN Take(as, 21)
  ELSE Take(rankByRelevance(removeDuplicates(as)), 21)

\* ResearchProcessor.processArticles (first variant): an error in
\* deduplication or ranking is answered with the first 20 input articles
Processor_processArticles(as) ==
  IF removeDuplicatesThrows(as) THEN Take(as, 20)
  ELSE Take(rankByRelevance(removeDuplicates(as)), 20)

\* ResearchProcessor.calculateConfidence, in hundredths over the number of
\* articles: min((average / 10) * 0.7 + (sources / 3) * 0.3, 1)
Processor_calculateConfidence(as) ==
  IF Len(as) = 0 THEN [num |-> 0, den |-> 1]
  ELSE LET n == Len(as)
       IN [num |-> Min(100 * n, 7 * SumRelevance(as) + 10 * Cardinality(Sources(as)) * n),
           den |-> 100 * n]

\* Length of the titles of the first five articles joined by a separator
\* (an undefined title is printed "undefined")
TitleLength(a) == IF a.title.defined THEN Len(a.title.name) ELSE 9

RECURSIVE JoinedLength(_, _)
JoinedLength(as, separator) ==
  IF as = <<>> THEN 0
  ELSE TitleLength(Head(as)) + (IF Len(as) > 1 THEN separator ELSE 0)
       + JoinedLength(Tail(as), separator)

\* Mutant: the top sentences joined, without the closing "."
generateExtractiveSummary_noPeriod(as) ==
  LET sentences == Cardinality({i \in 1 .. Len(as) : as[i].summary = "long"})
      top == Min(sentences, 4)
  IN top * 21 + (IF top > 0 THEN (top - 1) * 2 ELSE 0)

\* SummaryGenerator.generateExtractiveSummary: the sentences of more than 20
\* characters, the top four joined by ". " and closed by "."
generateExtractiveSummary(as) ==
  LET sentences == Cardinality({i \in 1 .. Len(as) : as[i].summary = "long"})
      top == Min(sentences, 4)
  IN top * 21 + (IF top > 0 THEN (top - 1) * 2 ELSE 0) + 1

\* SummaryGenerator.generateBasicSummary
generateBasicSummary(as) == 48 + JoinedLength(Take(as, 5), 2) + 20 + 1 + 32

\* SummaryGenerator.generateSummary: article.summary.split throws on a
\* missing summary, which the catch block answers with the basic summary
generateSummary(as) ==
  IF Len(as) = 0 THEN 31
  ELSE IF \E i \in 1 .. Len(as) : as[i].summary = "missing" THEN generateBasicSummary(as)
  ELSE generateExtractiveSummary(as)

\* SummaryGenerator.generateInsights: sources, dates (when an article is
\* dated), volume, relevance
generateInsights(as) ==
  1 + (IF \E i \in 1 .. Len(as) : as[i].publishedAt # "none" THEN 1 ELSE 0) + 1 + 1

\* ResearchProcessor.fallbackSummaryGeneration
fallbackSummaryGeneration(as) ==
  IF Len(as) = 0 THEN 31 ELSE 26 + 1 + 31 + JoinedLength(Take(as, 5), 2)

\* ResearchProcessor.fallbackInsightGeneration
fallbackInsightGeneration(as) == IF Len(as) = 0 THEN 1 ELSE 3

\* emptyResults of ResearchProcessor.execute (first variant)
Processor_emptyResults(topicLen) ==
  [made |-> TRUE, summary |-> 38 + topicLen + 72, keyInsights |-> 1, keywords |-> "empty",
   totalArticles |-> 0, confidence |-> [num |-> 0, den |-> 1]]

\* results of ResearchProcessor.execute
Processor_results(keywords, summaryFailed, as) ==
  [made |-> TRUE,
   summary |-> IF summaryFailed THEN fallbackSummaryGeneration(as) ELSE generateSummary(as),
   keyInsights |-> IF summaryFailed THEN fallbackInsightGeneration(as) ELSE generateInsights(as),
   keywords |-> keywords,
   totalArticles |-> Len(as),
   confidence |-> Processor_calculateConfidence(as)]

\* ------------------------------------------- ResearchProcessor: the ranker
\* The ranker called on its own, on articles with their text.  body is the
\* summary in lower case (empty when the summary is missing or empty); the
\* characters "." and "(" mean something in a regular expression.
Undefined == <<"u", "n", "d", "e", "f", "i", "n", "e", "d">>

\* `${article.title} ${article.summary || ''}`.toLowerCase(); the second
\* variant has no `|| ''`, a missing summary is printed "undefined"
Text(a, v) ==
  (IF a.title.defined THEN a.title.name ELSE Undefined) \o <<" ">> \o
  (IF v = "processor2" /\ a.summary = "missing" THEN Undefined ELSE a.body)

\* new RegExp(word, 'g') matches at position i of the text: character by
\* character when the word was escaped; unescaped, "." matches any character
MatchesAt(text, word, i, escaped) ==
  /\ i + Len(word) - 1 <= Len(text)
  /\ \A k \in 1 .. Len(word) :
        word[k] = text[i + k - 1] \/ (~escaped /\ word[k] = ".")

\* (text.match(regexp) || []).length from position i on: the matches are
\* taken from left to right and do not overlap; the empty word matches at
\* every position, the end of the text included
RECURSIVE CountFrom(_, _, _, _)
CountFrom(text, word, i, escaped) ==
  IF i > Len(text) + 1 THEN 0
  ELSE IF MatchesAt(text, word, i, escaped)
       THEN 1 + CountFrom(text, word, i + Max(Len(word), 1), escaped)
       ELSE CountFrom(text, word, i + 1, escaped)

\* The sum over topicWords.forEach of the occurrences of the word.  The
\* first variant escapes the special characters of the word, the second
\* does not.
RECURSIVE Occurrences(_, _, _)
Occurrences(a, words, v) ==
  IF words = <<>> THEN 0
  ELSE CountFrom(Text(a, v), Head(words), 1, v = "processor") + Occurrences(a, Tail(words), v)

\* The articles with the occurrences of the topic's words counted
withOccurrences(as, words, v) ==
  [i \in 1 .. Len(as) |-> [as[i] EXCEPT !.occurrences = Occurrences(as[i], words, v)]]

\* new RegExp(word, 'g') of the second variant throws a SyntaxError on an
\* unescaped "(" (unterminated group); it is built once an article is mapped
rankByRelevanceThrows(as, words, v) ==
  /\ v = "processor2"
  /\ as # <<>>
  /\ \E w \in 1 .. Len(words) : \E k \in 1 .. Len(words[w]) : words[w][k] = "("

\* An article of a provider, with its text
Article(name, upper, url, summary, body) ==
  [title |-> [defined |-> TRUE, name |-> name, upper |-> upper], url |-> url,
   source |-> "Wikipedia", relevanceScore |-> 0, summary |-> summary, body |-> body,
   occurrences |-> 0, publishedAt |-> "none"]

\* The articles the short lists are made of: titles with the words "c" and
\* "h" (say "climate" and "change") in them or not, the same title in upper
\* case, the same title with another url and the same url with another
\* title, two articles whose title and url differ but join to the same
\* string, an article without summary, an article without title
RankerPool ==
  { Article(<<"c", "c", "h">>, FALSE, <<"1">>, "short", <<>>),
    Article(<<"b">>, FALSE, <<"2">>, "short", <<>>),
    Article(<<"c">>, FALSE, <<"3">>, "short", <<>>),
    Article(<<"c">>, TRUE, <<"3">>, "long", <<"h">>),
    Article(<<"c">>, FALSE, <<"h", "b">>, "short", <<>>),
    Article(<<"c", "h">>, FALSE, <<"b">>, "short", <<>>),
    Article(<<"b">>, FALSE, <<"3">>, "missing", <<>>),
    [Article(<<>>, FALSE, <<"4">>, "short", <<"c">>) EXCEPT !.title.defined = FALSE] }

\* Longest list drawn from the pool, and longest generated list: the ranker
\* keeps 20 articles
MaxArticles == 3
MaxLong == 23

\* The i-th article of a generated list of n articles: its url is i
\* characters long, its title has 0 to 3 times the word "c"; every tenth
\* article repeats the first when the list has duplicates
LongArticle(i, n, shape, dup) ==
  LET k == IF dup /\ i % 10 = 0 THEN 1 ELSE i
      times == CASE shape = "rising" -> k % 4
                 [] shape = "falling" -> (n - k) % 4
                 [] OTHER -> 1
  IN Article([j \in 1 .. times |-> "c"], FALSE, [j \in 1 .. k |-> "u"], "short", <<>>)

LongList(n, shape, dup) == [i \in 1 .. n |-> LongArticle(i, n, shape, dup)]

LongLists ==
  {LongList(n, shape, dup) : n \in 19 .. MaxLong, shape \in {"rising", "falling", "flat"},
                             dup \in BOOLEAN}

\* The lists the ranker is called on: short ones of any article of the
\* pool, long ones, and long ones ending with an article without title
ArticleLists ==
  SeqsUpTo(RankerPool, MaxArticles) \cup LongLists
    \cup {Append(l, [Article(<<>>, FALSE, <<"4">>, "short", <<>>) EXCEPT !.title.defined = FALSE]) :
            l \in LongLists}

\* topic.toLowerCase().split(' '): plain words, a word that is a special
\* character, the empty word of a topic that ends with a space, and a word
\* that occurs in "undefined"
Topics == {<<<<"c">>, <<"h">>>>, <<<<".">>>>, <<<<"(">>>>, <<<<"c">>, <<>>>>, <<<<"d">>>>}

InitRanker ==
  /\ InitScheduler
  /\ NoRun
  /\ args \in [articles : ArticleLists, topic : Topics, variant : {"processor", "processor2"}]
  /\ returned = NotCalled

\* removeDuplicates(articles)
CallRemoveDuplicates ==
  /\ returned.op = "none"
  /\ returned' = IF removeDuplicatesThrows(args.articles)
                 THEN [NotCalled EXCEPT !.op = "removeDuplicates", !.threw = TRUE]
                 ELSE [NotCalled EXCEPT !.op = "removeDuplicates",
                                        !.value = removeDuplicates(args.articles)]
  /\ UNCHANGED <<svars, pvars, args>>

\* removeDuplicates(removeDuplicates(articles))
CallRemoveDuplicatesAgain ==
  /\ returned.op = "removeDuplicates"
  /\ ~returned.threw
  /\ returned' = [returned EXCEPT !.op = "removeDuplicates twice",
                                  !.again = removeDuplicates(returned.value)]
  /\ UNCHANGED <<svars, pvars, args>>

\* rankByRelevance(articles, topic)
CallRankByRelevance ==
  /\ returned.op = "none"
  /\ returned' = IF rankByRelevanceThrows(args.articles, args.topic, args.variant)
                 THEN [NotCalled EXCEPT !.op = "rankByRelevance", !.threw = TRUE]
                 ELSE [NotCalled EXCEPT
                         !.op = "rankByRelevance",
                         !.value = rankByRelevance(
                                     withOccurrences(args.articles, args.topic, args.variant))]
  /\ UNCHANGED <<svars, pvars, args>>

\* processArticles(articles, topic), and the totalArticles execute makes of
\* it.  The second variant has no try/catch: what removeDuplicates or
\* rankByRelevance throws, processArticles throws.
CallProcessArticles ==
  /\ returned.op = "none"
  /\ LET counted == withOccurrences(args.articles, args.topic, args.variant)
         threw == /\ args.variant = "processor2"
                  /\ \/ removeDuplicatesThrows(args.articles)
                     \/ rankByRelevanceThrows(removeDuplicates(args.articles), args.topic,
                                              args.variant)
         value == Processor_processArticles(counted)
     IN returned' = IF threw THEN [NotCalled EXCEPT !.op = "processArticles", !.threw = TRUE]
                    ELSE [NotCalled EXCEPT
                            !.op = "processArticles", !.value = value,
                            !.total = Processor_results("extracted", FALSE, value).totalArticles]
  /\ UNCHANGED <<svars, pvars, args>>

NextRanker ==
  \/ CallRemoveDuplicates
  \/ CallRemoveDuplicatesAgain
  \/ CallRankByRelevance
  \/ CallProcessArticles

SpecRanker == InitRanker /\ [][NextRanker]_vars

\* ------------------------------------------------ research pipeline: one run
\* One run of the pipeline on one request, in one of the three
\* implementations: "worker" is ResearchWorker.processResearchTask,
\* "processor" and "processor2" are the two variants of
\* ResearchProcessor.execute.  pstore is the request's record in the Result
\* Store, every write to it may fail (ok = FALSE).
Variants == {"worker", "processor", "processor2"}

WorkerInputs ==
  [topic : {TopicMin, TopicMax}, wikipedia : WikipediaAnswers, hackernews : HackerNewsAnswers]

ProcessorInputs ==
  [topic : {TopicMin, TopicMax},
   clients : {<<w, n>> : w \in ClientAnswers(WikipediaPool), n \in ClientAnswers(NewsAPIPool)}]

InitPipeline ==
  /\ InitScheduler
  /\ NoCall
  /\ variant \in Variants
  /\ providers \in (IF variant = "worker" THEN WorkerInputs ELSE ProcessorInputs)
  /\ ppc = "start"
  /\ fetched = <<>>
  /\ processed = <<>>
  /\ presult = NoResult
  /\ pstore = NoStore
  /\ perr = "none"
  /\ reports = <<>>

\* The run goes on at stage pc with the record as written, having reported
\* the progress values said
Goto(pc, store, said) ==
  ppc' = pc /\ pstore' = store /\ perr' = perr /\ reports' = reports \o said

\* The run throws: control passes to the catch block of the run
Throw(error, store, said) ==
  ppc' = "catch" /\ pstore' = store /\ perr' = error /\ reports' = reports \o said

\* ResearchProcessor.updateRequestStatus: a failed write is logged, not thrown
updateRequestStatus(store, status, ok) ==
  IF ok THEN [store EXCEPT !.status = status, !.written = Append(@, status)] ELSE store

\* ResearchProcessor.updateProgress, the record it leaves: progress, and
\* status COMPLETED with progress 100, when the write succeeds
updateProgress(store, progress, ok) ==
  IF ~ok THEN store
  ELSE [store EXCEPT !.progress = progress,
                     !.status = IF progress = 100 THEN "COMPLETED" ELSE @,
                     !.written = IF progress = 100 THEN Append(@, "COMPLETED") ELSE @]

\* execute up to the fetch: the writes of IN_PROGRESS and of progress 0 and 10
RunStart ==
  /\ ppc = "start"
  /\ \E ok0, ok1, ok2 \in BOOLEAN :
       CASE variant = "worker" ->
              IF ok0
              THEN Goto("fetch", [pstore EXCEPT !.status = "IN_PROGRESS", !.progress = 10,
                                                !.written = Append(@, "IN_PROGRESS")], <<10>>)
              ELSE Throw("DbError", pstore, <<10>>)
         [] variant = "processor" ->
              Goto("fetch", updateProgress(updateProgress(
                              updateRequestStatus(pstore, "IN_PROGRESS", ok0), 0, ok1), 10, ok2),
                   <<0, 10>>)
         [] variant = "processor2" ->
              IF ~ok1 THEN Throw("DbError", pstore, <<0>>)
              ELSE IF ~ok2 THEN Throw("DbError", updateProgress(pstore, 0, TRUE), <<0, 10>>)
              ELSE Goto("fetch", updateProgress(pstore, 10, TRUE), <<0, 10>>)
  /\ UNCHANGED <<svars, fvars, variant, providers, fetched, processed, presult>>

\* The fetch stage, and what follows it up to the next stage: the write of
\* progress 40, or the minimal result of the first variant when no article
\* was found
RunFetch ==
  /\ ppc = "fetch"
  /\ variant = "worker" => ~Worker_fetchBlocks(providers.wikipedia, providers.hackernews)
  /\ variant = "processor2" => ~Processor2_fetchBlocks(providers.clients)
  /\ fetched' = CASE variant = "worker" ->
                       Worker_fetchArticles(providers.wikipedia, providers.hackernews)
                  [] variant = "processor" -> Processor_fetchArticles(providers.clients)
                  [] variant = "processor2" -> Processor2_fetchArticles(providers.clients)
  /\ \E ok \in BOOLEAN :
       CASE variant = "worker" ->
              /\ IF ok THEN Goto("process", [pstore EXCEPT !.progress = 40], <<40>>)
                 ELSE Throw("DbError", pstore, <<40>>)
              /\ presult' = presult
         [] variant = "processor" ->
              IF fetched' = <<>>
              THEN /\ Goto("save", pstore, <<>>)
                   /\ presult' = Processor_emptyResults(providers.topic)
              ELSE /\ Goto("process", updateProgress(pstore, 40, ok), <<40>>)
                   /\ presult' = presult
         [] variant = "processor2" ->
              /\ IF ok THEN Goto("process", updateProgress(pstore, 40, ok), <<40>>)
                 ELSE Throw("DbError", pstore, <<40>>)
              /\ presult' = presult
  /\ UNCHANGED <<svars, fvars, variant, providers, processed>>

\* The processing stage and the write of progress 70
RunProcess ==
  /\ ppc = "process"
  /\ \E ok \in BOOLEAN :
       CASE variant = "worker" ->
              /\ processed' = Worker_processArticles(fetched)
              /\ IF ok THEN Goto("save", [pstore EXCEPT !.progress = 70], <<70>>)
                 ELSE Throw("DbError", pstore, <<70>>)
         [] variant = "processor" ->
              /\ processed' = Processor_processArticles(fetched)
              /\ Goto("keywords", updateProgress(pstore, 70, ok), <<70>>)
         [] variant = "processor2" ->
              IF removeDuplicatesThrows(fetched)
              THEN processed' = processed /\ Throw("TypeError", pstore, <<>>)
              ELSE /\ processed' = Take(rankByRelevance(removeDuplicates(fetched)), 20)
                   /\ IF ok THEN Goto("keywords", updateProgress(pstore, 70, ok), <<70>>)
                      ELSE Throw("DbError", pstore, <<70>>)
  /\ UNCHANGED <<svars, fvars, variant, providers, fetched, presult>>

\* The keyword stage of the ResearchProcessor and the write of progress 85:
\* keywordExtractor.extract may reject (throws = TRUE); the first variant
\* then takes fallbackKeywordExtraction, the second lets the error escape
RunKeywords ==
  /\ ppc = "keywords"
  /\ \E throws, ok \in BOOLEAN :
       CASE variant = "processor" ->
              /\ presult' = [presult EXCEPT !.keywords = IF throws THEN "fallback" ELSE "extractor"]
              /\ Goto("summary", updateProgress(pstore, 85, ok), <<85>>)
         [] variant = "processor2" ->
              IF throws THEN presult' = presult /\ Throw("KeywordError", pstore, <<>>)
              ELSE /\ presult' = [presult EXCEPT !.keywords = "extractor"]
                   /\ IF ok THEN Goto("summary", updateProgress(pstore, 85, ok), <<85>>)
                      ELSE Throw("DbError", pstore, <<85>>)
  /\ UNCHANGED <<svars, fvars, variant, providers, fetched, processed>>

\* The summary stage of the ResearchProcessor, the write of progress 95 and
\* the results object: generateSummary or generateInsights may reject
RunSummary ==
  /\ ppc = "summary"
  /\ \E throws, ok \in BOOLEAN :
       CASE variant = "processor" ->
              /\ presult' = Processor_results(presult.keywords, throws, processed)
              /\ Goto("save", updateProgress(pstore, 95, ok), <<95>>)
         [] variant = "processor2" ->
              IF throws THEN presult' = presult /\ Throw("SummaryError", pstore, <<>>)
              ELSE IF ok
                   THEN /\ presult' = Processor_results(presult.keywords, FALSE, processed)
                        /\ Goto("save", updateProgress(pstore, 95, ok), <<95>>)
                   ELSE presult' = presult /\ Throw("DbError", pstore, <<95>>)
  /\ UNCHANGED <<svars, fvars, variant, providers, fetched, processed>>

\* Mutant: a save that stores nothing
saveResults_nothing(store, articles, fault) == store

\* Mutant: a save whose two writes are not one unit, the result record stays
\* when the write of the articles fails
saveResults_apart(store, articles, fault) ==
  CASE fault = "none" -> [store EXCEPT !.results = @ + 1, !.articles = @ + Len(articles)]
    [] fault = "articles" -> [store EXCEPT !.results = @ + 1]
    [] OTHER -> store

\* Where the save may fail: at the write of the result record, or after it
\* at the write of the articles (or at the commit)
SaveFaults == {"none", "result", "articles"}

\* saveResults: the result record and its articles are written in one
\* transaction (first variant) or by one create with the articles nested in
\* it (ResearchWorker, second variant), so a failure at either write leaves
\* neither; the error of the store is thrown.  The ResearchWorker builds its
\* results object right before.
saveResults(store, articles, fault) ==
  IF fault = "none"
  THEN [store EXCEPT !.results = @ + 1, !.articles = @ + Len(articles)]
  ELSE store

RunSave ==
  /\ ppc = "save"
  /\ presult' = IF variant = "worker" THEN Worker_results(providers.topic, processed)
                ELSE presult
  /\ \E fault \in SaveFaults :
       IF fault = "none" THEN Goto("complete", saveResults(pstore, processed, fault), <<>>)
       ELSE Throw("SaveError", saveResults(pstore, processed, fault), <<>>)
  /\ UNCHANGED <<svars, fvars, variant, providers, fetched, processed>>

\* The write of COMPLETED and progress 100, then the results are returned
RunComplete ==
  /\ ppc = "complete"
  /\ \E ok \in BOOLEAN :
       CASE variant = "worker" ->
              IF ok
              THEN Goto("done", [pstore EXCEPT !.status = "COMPLETED", !.progress = 100,
                                               !.written = Append(@, "COMPLETED")], <<100>>)
              ELSE Throw("DbError", pstore, <<100>>)
         [] variant = "processor" -> Goto("done", updateProgress(pstore, 100, ok), <<100>>)
         [] variant = "processor2" ->
              IF ok THEN Goto("done", updateProgress(pstore, 100, ok), <<100>>)
              ELSE Throw("DbError", pstore, <<100>>)
  /\ UNCHANGED <<svars, fvars, variant, providers, fetched, processed, presult>>

\* Mutant: the record written FAILED is given progress 0 again
handleError_resetsProgress(store, error, ok) ==
  IF ok THEN [store EXCEPT !.status = "FAILED", !.error = error, !.progress = 0,
                           !.written = Append(@, "FAILED")]
  ELSE store

\* handleError, and the update in the catch block of the ResearchWorker: the
\* record is written FAILED with the message of the error
handleError(store, error, ok) ==
  IF ok THEN [store EXCEPT !.status = "FAILED", !.error = error,
                           !.written = Append(@, "FAILED")]
  ELSE store

\* The catch block of the run: handleError, then the error is thrown to the
\* caller.  The ResearchWorker and the first variant swallow a failure of
\* that write; in the second variant the caller gets the failure of
\* handleError instead of the error of the run.
RunCatch ==
  /\ ppc = "catch"
  /\ ppc' = "failed"
  /\ \E ok \in BOOLEAN :
       /\ pstore' = handleError(pstore, perr, ok)
       /\ perr' = IF ~ok /\ variant = "processor2" THEN "DbError" ELSE perr
  /\ UNCHANGED <<svars, fvars, variant, providers, fetched, processed, presult, reports>>

NextPipeline ==
  \/ RunStart
  \/ RunFetch
  \/ RunProcess
  \/ RunKeywords
  \/ RunSummary
  \/ RunSave
  \/ RunComplete
  \/ RunCatch

SpecPipeline == InitPipeline /\ [][NextPipeline]_vars

\* ================================================================ claims
\* The jobs of the table by request id, and the order of priorities as the
\* specification states it (high > normal > low).
Job(id) == jobs[JobIndex(id)]

StrictlyHigher(p, q) ==
  \/ p = "high" /\ q \in {"normal", "low"}
  \/ p = "normal" /\ q = "low"

\* In this step job id changes from waiting to active
Starts(id) == JobStatus(id) = "waiting" /\ JobStatus(id)' = "active"

\* C1: whenever a job changes from waiting to active, no job of strictly
\* higher priority is in status waiting at that moment.
C1_PriorityOrder ==
  [][\A id \in Ids : Starts(id) =>
       \A k \in 1 .. Len(jobs) :
         jobs[k].status = "waiting" => ~StrictlyHigher(jobs[k].priority, Job(id).priority)]_vars

\* C2: of two jobs of the same priority the one submitted first becomes
\* active first: when a job starts, no job of its priority that was submitted
\* before it (it stands earlier in the table) is still waiting.
C2_FifoWithinBand ==
  [][\A id \in Ids : Starts(id) =>
       \A k \in 1 .. Len(jobs) :
         (jobs[k].status = "waiting" /\ jobs[k].priority = Job(id).priority)
           => k >= JobIndex(id)]_vars

\* C2 witness: two jobs of one priority stamped in the same millisecond were
\* both queued before the scheduler ran (a second callback is still pending);
\* the one submitted first is active, the other waits.
C2_Witness ==
  \E i, k \in 1 .. Len(jobs) :
    /\ i < k
    /\ jobs[i].status = "active"
    /\ jobs[k].status = "waiting"
    /\ jobs[i].priority = jobs[k].priority
    /\ jobs[i].createdAt = jobs[k].createdAt
    /\ polls > 0

\* C3: at most one job is in status active at any time.
C3_AtMostOneActive == getStats(jobs).active <= 1

\* C3 witness: a job is active, another waits, and a scheduler callback is pending.
C3_Witness ==
  /\ getStats(jobs).active = 1
  /\ getStats(jobs).waiting >= 1
  /\ polls > 0

\* C4: with the event loop running every ready callback (FairSpec), every
\* job that is waiting eventually is completed or failed: a job submitted
\* while another runs, or between two polls, is not left waiting forever.
C4_EveryJobEnds ==
  \A id \in Ids : (JobStatus(id) = "waiting") ~> (JobStatus(id) \in {"completed", "failed"})

\* C4 witness: a job was submitted while another job runs and no scheduler
\* callback is pending: only the tail of the running job can wake the scheduler.
C4_Witness ==
  /\ processing
  /\ polls = 0
  /\ getStats(jobs).active = 1
  /\ getStats(jobs).waiting >= 1

\* The execution order B, C, A of the scenario, by request id
OrderBCA == <<2, 3, 1>>

\* C5 as stated: once the three jobs of the scenario A (low), B (high),
\* C (normal) have all been started, they were started in the order B, C, A.
C5_OrderBCA == Len(startOrder) = Len(Scenario) => startOrder = OrderBCA

\* C5 amended: when the three jobs are all submitted before the scheduler
\* starts its first job, the jobs are started in the order B, C, A.
C5_OrderBCAWhenQueuedFirst ==
  queuedFirst = Len(Scenario) => startOrder = SubSeq(OrderBCA, 1, Len(startOrder))

\* C5 witness: all three were queued before the first start, and all three ran.
C5_Witness == queuedFirst = Len(Scenario) /\ startOrder = OrderBCA

\* The status changes the claim allows: none, creation, waiting -> active,
\* active -> completed | failed, and deletion of a job that has ended.
AllowedChange(s, t) ==
  \/ s = t
  \/ s = "absent" /\ t = "waiting"
  \/ s = "waiting" /\ t = "active"
  \/ s = "active" /\ t \in {"completed", "failed"}
  \/ s \in {"completed", "failed"} /\ t = "absent"

\* C6: the status of every job only changes along waiting -> active ->
\* completed | failed; a job enters the table once, as waiting and under a
\* fresh id, so it becomes active at most once; an active job is never put
\* back to waiting; a completed or failed job can only be deleted.
C6_StatusTransitions ==
  [][\A id \in Ids :
       /\ AllowedChange(JobStatus(id), JobStatus(id)')
       /\ (JobStatus(id) = "absent" /\ JobStatus(id)' = "waiting") => id = nextId]_vars

\* C6 witness: a job is active while a job of strictly higher priority,
\* submitted after it, waits: the later submission did not preempt it.
C6_Witness ==
  \E i, k \in 1 .. Len(jobs) :
    /\ i < k
    /\ jobs[i].status = "active"
    /\ jobs[k].status = "waiting"
    /\ StrictlyHigher(jobs[k].priority, jobs[i].priority)

JobError(id) == IF HasJob(id) THEN jobs[JobIndex(id)].error ELSE "absent"

\* C7: when the pipeline run of a job throws, the scheduler marks the job
\* failed with the message of the exception and, if a job waits, schedules
\* its next poll; a failed job stays failed (it is never picked again).
C7_FailedNotRetried ==
  [][\A id \in Ids :
       /\ (wpc = "catch" /\ wjob = id /\ wpc' # "catch") =>
            /\ werr # "none"
            /\ JobStatus(id)' = "failed"
            /\ JobError(id)' = werr
            /\ hasWaitingJobs(jobs') => polls' > 0
       /\ JobStatus(id) = "failed" => JobStatus(id)' = "failed"]_vars

\* C7 witness: the first job started has failed with a message and the
\* scheduler has gone on to start the second.
C7_Witness ==
  /\ Len(startOrder) = 2
  /\ JobStatus(startOrder[1]) = "failed"
  /\ JobError(startOrder[1]) \in {"RecordNotFound", "DbError"}
  /\ JobStatus(startOrder[2]) = "active"

\* This step answers a cancel request (DELETE without force) for request id
\* with success
CancelSucceeds(id) ==
  /\ del.id = id
  /\ ~del.force
  /\ del' = NoDelete
  /\ response' = "200 Research task cancelled successfully"

\* C8: a successful cancel of a job that is waiting takes it out of the
\* waiting count of getStats(), and a job whose request is recorded as
\* CANCELLED is not started by the scheduler.
C8_CancelWaitingRemoves ==
  [][\A id \in Ids :
       /\ (CancelSucceeds(id) /\ JobStatus(id) = "waiting") =>
            getStats(jobs').waiting = getStats(jobs).waiting - 1
       /\ (requests[id].status = "CANCELLED") => ~Starts(id)]_vars

\* C9: a cancel request (DELETE without force) for a job that is active is
\* not answered with success and does not change the recorded status.
C9_CancelActiveRefused ==
  [][\A id \in Ids :
       (del.id = id /\ ~del.force /\ del' = NoDelete /\ JobStatus(id) = "active") =>
         /\ response' # "200 Research task cancelled successfully"
         /\ requests'[id].status = requests[id].status]_vars

\* C10: no request record and no job has a topic that is missing, empty or
\* longer than TopicMax, and a step that answers with a validation error
\* leaves the Result Store and the queue as they were.
C10_InvalidTopicRejected ==
  /\ [](/\ \A id \in Ids : requests[id].status # "NONE" =>
                             requests[id].topic \in TopicMin .. TopicMax
        /\ \A k \in 1 .. Len(jobs) : jobs[k].topic \in TopicMin .. TopicMax)
  /\ [][(response' \in ValidationErrors /\ response' # response) =>
          UNCHANGED <<jobs, polls, requests, results, nextId, processing>>]_vars

\* C10 witness: a submission was rejected as too long while a job is queued.
C10_Witness ==
  /\ response = "400 Validation failed: Topic too long"
  /\ getStats(jobs).waiting >= 1

\* The run is past its fetch stage and no Search Provider returned an article
ZeroArticles == ppc \notin {"start", "fetch"} /\ fetched = <<>>

\* The run failed because a write to the Result Store was refused
StoreError == perr \in {"DbError", "SaveError"}

\* C11: when every Search Provider returns zero articles the run does not
\* fail for that reason (only a refused store write can fail it); the result
\* it builds has totalArticles = 0, confidence = 0, a non-empty summary and
\* at least one key insight; the run that returns has reported progress 100.
C11_ZeroArticlesComplete ==
  ZeroArticles =>
    /\ ppc \in {"catch", "failed"} => StoreError
    /\ presult.made =>
         /\ presult.totalArticles = 0
         /\ presult.confidence.num = 0
         /\ presult.summary > 0
         /\ presult.keyInsights >= 1
    /\ ppc = "done" =>
         /\ presult.made
         /\ reports # <<>>
         /\ reports[Len(reports)] = 100

\* The run was aborted by an exception of the keyword stage or of the
\* summary and insight stage
StageAborted == perr \in {"KeywordError", "SummaryError"}

FetchRan ==
  /\ ppc \notin {"start", "fetch"}
  /\ variant = "processor" \/ \E i \in 1 .. Len(reports) : reports[i] >= 40

\* Number of fetched articles of one source
FetchedFrom(source) == Cardinality({i \in 1 .. Len(fetched) : fetched[i].source = source})

\* What a client of the ResearchProcessor that answered has returned
Returned(answer) == IF answer.outcome = "ok" THEN answer.articles ELSE <<>>

\* C13: a Search Provider that throws or times out contributes no article
\* and does not fail the run; what the processing stage receives is exactly
\* what the providers that answered have returned (ResearchProcessor: their
\* articles in the order of the clients; ResearchWorker: one article for each
\* of the first three titles and for each of the first two hits that has a
\* title and a url), and a run that fails does so on a refused store write.
C13_ProviderFailureIsolated ==
  (FetchRan /\ variant \in {"worker", "processor"}) =>
    /\ ppc \in {"catch", "failed"} => StoreError
    /\ variant = "processor" =>
         fetched = Returned(providers.clients[1]) \o Returned(providers.clients[2])
    /\ variant = "worker" =>
         /\ FetchedFrom("Wikipedia") =
              (IF providers.wikipedia.outcome = "ok" THEN Min(providers.wikipedia.titles, 3) ELSE 0)
         /\ FetchedFrom("HackerNews") =
              Cardinality({i \in 1 .. Min(Len(providers.hackernews.hits), 2) :
                             providers.hackernews.hits[i].named})
         /\ Len(fetched) = FetchedFrom("Wikipedia") + FetchedFrom("HackerNews")

\* A run whose first provider failed and whose second returned articles has
\* handed them to the processing stage and has completed
C13_Witness ==
  /\ ppc = "done"
  /\ fetched # <<>>
  /\ \/ variant = "processor" /\ providers.clients[1].outcome \in {"throws", "timeout"}
     \/ variant = "worker" /\ providers.wikipedia.outcome = "throws"

\* The messages of a failed saveResults
SaveErrors == {"SaveError", "ForeignKeyError"}

\* The job is known to the scheduler with the error of a failed saveResults
SaveFailed(id) == HasJob(id) /\ JobError(id) \in SaveErrors

\* The worker's run on job id threw the error of saveResults and the step
\* hands it to the scheduler
SaveFailureHandled(id) ==
  wjob = id /\ wpc = "catch" /\ werr \in SaveErrors /\ wpc' = "idle"

C15_ConfidenceRange ==
  presult.made =>
    /\ 0 <= presult.confidence.num
    /\ presult.confidence.num <= presult.confidence.den
    /\ presult.confidence.num = 0 <=> presult.totalArticles = 0

\* C16: every Research Result the pipeline builds, on the normal path, on
\* the zero-article path and on the fallback path, has a summary of at least
\* one character and at least one key insight.
C16_SummaryAndInsights ==
  presult.made => presult.summary > 0 /\ presult.keyInsights >= 1

\* A completed run of the ResearchProcessor on articles none of which has a
\* sentence of more than 20 characters: its summary is the closing "."
C16_Witness ==
  /\ ppc = "done"
  /\ variant = "processor"
  /\ processed # <<>>
  /\ presult.keywords = "extractor"
  /\ presult.summary = 1

\* Number of jobs of the table in one status
CountOf(status) == Cardinality({i \in 1 .. Len(jobs) : jobs[i].status = status})

\* The statistics report the number of jobs in each status and their sum
StatsRight(stats) ==
  /\ stats.waiting = CountOf("waiting")
  /\ stats.active = CountOf("active")
  /\ stats.completed = CountOf("completed")
  /\ stats.failed = CountOf("failed")
  /\ stats.total = stats.waiting + stats.active + stats.completed + stats.failed

\* C17: in every reachable state stats() reports for waiting, active,
\* completed and failed the number of jobs in that status, and total is
\* their sum; this for getStats of the in-memory queue and for getQueueStats.
C17_StatsCounts == StatsRight(getStats(jobs)) /\ StatsRight(getQueueStats(jobs))

\* In the statuses written to the record, each COMPLETED comes after an IN_PROGRESS
InProgressFirst ==
  \A i \in 1 .. Len(pstore.written) :
    pstore.written[i] = "COMPLETED" => \E j \in 1 .. i - 1 : pstore.written[j] = "IN_PROGRESS"

\* A record with status COMPLETED has a Research Result
CompletedHasResult == pstore.status = "COMPLETED" => pstore.results >= 1

\* C18 as stated, for the ResearchWorker and the ResearchProcessor: the record
\* is written IN_PROGRESS before it is written COMPLETED, and a record with
\* status COMPLETED has a Research Result.
C18_InProgressThenCompleted ==
  variant \in {"worker", "processor"} => InProgressFirst /\ CompletedHasResult

\* C18 amended: COMPLETED is written only after the Research Result has been
\* persisted, so a record with status COMPLETED has a Research Result; in the
\* ResearchWorker COMPLETED is written after IN_PROGRESS; in the
\* ResearchProcessor the write of IN_PROGRESS is asked first but may be
\* refused, the statuses written are then COMPLETED alone.
C18_CompletedAfterPersist ==
  variant \in {"worker", "processor"} =>
    /\ CompletedHasResult
    /\ variant = "worker" => InProgressFirst
    /\ (variant = "processor" /\ ppc = "done") =>
         pstore.written \in {<<"IN_PROGRESS", "COMPLETED">>, <<"COMPLETED">>,
                             <<"IN_PROGRESS">>, <<>>}

\* A run of the ResearchWorker that wrote IN_PROGRESS, saved one result and
\* wrote COMPLETED
C18_Witness ==
  /\ variant = "worker"
  /\ ppc = "done"
  /\ pstore.written = <<"IN_PROGRESS", "COMPLETED">>
  /\ pstore.status = "COMPLETED"
  /\ pstore.results = 1

\* C19: once a job has reached completed there is exactly one result
\* record for its request, and no request ever has more than one.
C19_ExactlyOneResult ==
  \A id \in Ids :
    /\ results[id] <= 1
    /\ (HasJob(id) /\ JobStatus(id) = "completed") => results[id] = 1

\* A completed job with its one result, while another job has been submitted
C19_Witness ==
  \E id \in Ids :
    /\ HasJob(id)
    /\ JobStatus(id) = "completed"
    /\ results[id] = 1
    /\ Len(jobs) = MaxJobs

\* Every fetch of the external APIs rejected
AllFetchesFail ==
  /\ variant = "worker"
  /\ providers.wikipedia.outcome = "throws"
  /\ providers.hackernews.outcome = "throws"

\* C20: when every fetch of the external APIs rejects, the ResearchWorker
\* goes on with its generated fallback articles, so the result it builds
\* still has articles.
C20_FallbackArticles ==
  (AllFetchesFail /\ FetchRan) =>
    /\ fetched = generateFallbackArticles
    /\ presult.made => presult.totalArticles > 0

\* The run threw because the store refused a write, and the last progress
\* value it had reported is an intermediate checkpoint
ProgressWriteAborted ==
  /\ ppc = "catch"
  /\ perr = "DbError"
  /\ reports # <<>>
  /\ reports[Len(reports)] \in {0, 10, 40, 70, 85, 95}

\* C21: a refused write of an intermediate progress update (checkpoints 0,
\* 10, 40, 70, 85, 95) is swallowed: it never makes the run throw.
C21_ProgressFailureSwallowed == ~ProgressWriteAborted

\* The checkpoints of the progress, in order
Checkpoints == <<0, 10, 40, 70, 85, 95, 100>>

\* The values are checkpoints and each is greater than the one before, that
\* is, they are drawn in order from the checkpoints
InCheckpointOrder(values) ==
  /\ \A i \in 1 .. Len(values) : \E k \in 1 .. Len(Checkpoints) : values[i] = Checkpoints[k]
  /\ \A i \in 1 .. Len(values) - 1 : values[i] < values[i + 1]

C23_FetchTerminates == ppc = "fetch" => ENABLED RunFetch

\* C24: the result and its articles are stored as one unit: the store holds
\* either the result record with all the articles of the run, or, when the
\* save failed at any point, neither the record nor any article.
C24_SaveAtomic ==
  /\ pstore.results \in {0, 1}
  /\ pstore.articles = pstore.results * Len(processed)
  /\ (ppc = "catch" /\ perr = "SaveError") => pstore.results = 0 /\ pstore.articles = 0

\* A save of two articles that failed, and left nothing
C24_Witness ==
  /\ ppc = "catch" /\ perr = "SaveError" /\ Len(processed) = 2
  /\ pstore.results = 0 /\ pstore.articles = 0

\* The score the specification gives an article: twice the number of
\* times the words of the topic occur, as written, in title + " " + summary
RECURSIVE Written(_, _)
Written(text, words) ==
  IF words = <<>> THEN 0
  ELSE (IF Head(words) = <<>> THEN 0 ELSE CountFrom(text, Head(words), 1, TRUE))
       + Written(text, Tail(words))

TopicScore(a) ==
  2 * Written((IF a.title.defined THEN a.title.name ELSE Undefined) \o <<" ">> \o a.body,
              args.topic)

\* The score the ranker of the call gives an article
RankScore(a) == 2 * Occurrences(a, args.topic, args.variant)

\* Place in the list of the first article with the title (in lower case)
\* and the url of a
PlaceIn(a, as) ==
  CHOOSE i \in 1 .. Len(as) :
    /\ as[i].title.name = a.title.name /\ as[i].url = a.url
    /\ \A j \in 1 .. i - 1 : ~(as[j].title.name = a.title.name /\ as[j].url = a.url)

\* C25: processArticles of the first variant returns at most 20 articles,
\* totalArticles is their number, and when deduplication succeeded they are
\* the highest-ranked of the deduplicated articles: as many as there are up
\* to 20, each one a deduplicated article, and no article left out ranks
\* before one that was kept.
C25_TopTwenty ==
  (returned.op = "processArticles" /\ args.variant = "processor") =>
    /\ ~returned.threw
    /\ Len(returned.value) <= 20
    /\ returned.total = Len(returned.value)
    /\ ~removeDuplicatesThrows(args.articles) =>
         LET unique == removeDuplicates(args.articles)
             kept == {PlaceIn(returned.value[i], unique) : i \in 1 .. Len(returned.value)}
         IN /\ Len(returned.value) = Min(Len(unique), 20)
            /\ \A i \in 1 .. Len(returned.value) :
                 \E j \in 1 .. Len(unique) :
                   [returned.value[i] EXCEPT !.relevanceScore = 0, !.occurrences = 0] = unique[j]
            /\ Cardinality(kept) = Len(returned.value)
            /\ \A i \in kept : \A j \in (1 .. Len(unique)) \ kept :
                 \/ RankScore(unique[i]) > RankScore(unique[j])
                 \/ RankScore(unique[i]) = RankScore(unique[j]) /\ i < j

\* More than 20 deduplicated articles went in, 20 came out
C25_Witness ==
  /\ returned.op = "processArticles" /\ args.variant = "processor"
  /\ ~removeDuplicatesThrows(args.articles)
  /\ Len(removeDuplicates(args.articles)) > 20
  /\ Len(args.articles) > Len(removeDuplicates(args.articles))
  /\ Len(returned.value) = 20 /\ returned.total = 20

\* The articles of score s, then those of the lower scores, each group in
\* the order of the list
RECURSIVE ByScore(_, _)
ByScore(as, s) ==
  IF s < 0 THEN <<>>
  ELSE SelectSeq(as, LAMBDA a : TopicScore(a) = s) \o ByScore(as, s - 1)

RECURSIVE MaxScore(_)
MaxScore(as) == IF as = <<>> THEN 0 ELSE Max(TopicScore(Head(as)), MaxScore(Tail(as)))

\* C26: rankByRelevance returns its input in the order of non-increasing
\* score, the articles of equal score in the order of the input, and every
\* article with its score, which is twice the number of occurrences of the
\* topic's words in title and summary.
C26_RankedByScore ==
  returned.op = "rankByRelevance" =>
    /\ ~returned.threw
    /\ LET ranked == ByScore(args.articles, MaxScore(args.articles))
       IN returned.value =
            [i \in 1 .. Len(ranked) |->
               [ranked[i] EXCEPT !.relevanceScore = TopicScore(ranked[i]),
                                 !.occurrences = TopicScore(ranked[i]) \div 2]]

\* C27: deduplicating a deduplicated list returns the same list.
C27_DedupIdempotent ==
  returned.op = "removeDuplicates twice" => returned.again = returned.value

\* A list with duplicates was deduplicated twice
C27_Witness ==
  /\ returned.op = "removeDuplicates twice"
  /\ Len(args.articles) = 3 /\ Len(returned.value) = 1 /\ Len(returned.again) = 1

\* The articles no earlier article has the url and, ignoring case, the
\* title of, from place i on
RECURSIVE FirstOccurrences(_, _)
FirstOccurrences(as, i) ==
  IF i > Len(as) THEN <<>>
  ELSE (IF \E j \in 1 .. i - 1 :
             as[j].url = as[i].url /\ as[j].title.name = as[i].title.name
        THEN <<>> ELSE <<as[i]>>)
       \o FirstOccurrences(as, i + 1)

\* C28: removeDuplicates returns, in the order of the input, exactly the
\* articles that no earlier article has the url and, ignoring case, the
\* title of.
C28_DropsExactDuplicates ==
  (returned.op = "removeDuplicates" /\ ~returned.threw) =>
    returned.value = FirstOccurrences(args.articles, 1)

\* C29: a job leaves the table only when it is completed and its removal
\* was scheduled at its completion; a failed job stays, failed, in every
\* step, so the failed count of getStats never decreases.
C29_OnlyCompletedPurged ==
  [][/\ \A i \in 1 .. Len(jobs) :
          (\A j \in 1 .. Len(jobs') : jobs'[j].id # jobs[i].id) =>
            jobs[i].status = "completed" /\ jobs[i].id \in purges
     /\ \A i \in 1 .. Len(jobs) :
          jobs[i].status = "failed" =>
            \E j \in 1 .. Len(jobs') : jobs'[j].id = jobs[i].id /\ jobs'[j].status = "failed"
     /\ getStats(jobs').failed >= getStats(jobs).failed]_vars

\* A completed job was removed and the failed job is still in the table
C29_Witness ==
  /\ Len(startOrder) = 2
  /\ Len(jobs) = 1
  /\ jobs[1].status = "failed"
  /\ purges = {}
  /\ getStats(jobs).failed = 1

\* C30: while a job of the table is completed, the record of its request
\* is COMPLETED with progress 100, or is deleted.
C30_CompletedMatchesStore ==
  \A i \in 1 .. Len(jobs) :
    jobs[i].status = "completed" =>
      \/ requests[jobs[i].id].status = "NONE"
      \/ requests[jobs[i].id].status = "COMPLETED" /\ requests[jobs[i].id].progress = 100

====
